---- MODULE Spec2Model ----
(***************************************************************************)
(* Model of the two Streamlit applications of the repository:              *)
(*   src/trend_analysis_app.py  (the trend analysis tool, "trend")         *)
(*   src/unnamed/part_000       (the index query tool, "qqq")              *)
(* Text is a sequence of one-character strings.  A spreadsheet cell is a   *)
(* record with a kind ("nan", "str", "int", "float") and its payload.      *)
(***************************************************************************)
EXTENDS Integers, Sequences, FiniteSets, TLC

VARIABLES
    pc,                    \* position of the script run
    app,                   \* which application loaded the data
    raw,                   \* rows of the spreadsheet that was read
    df,                    \* the DataFrame returned by load_data
    df_columns,            \* whether df has its columns (FALSE for pd.DataFrame())
    stock_code,            \* the query code after the sidebar has run
    year_range,            \* the slider's (low, high)
    formatted_stock_code,  \* format_stock_code(stock_code) of the query branch
    matched,               \* main_df as first assigned: the rows of the queried code
    main_df,               \* the rows the query branch ends with
    outcome,               \* what the query branch showed
    comparison_stocks,     \* the codes of the companies to compare with
    stats,                 \* the statistics shown under the chart, if any
    arg,                   \* argument of a function applied on its own
    ret                    \* its return value

vars == <<pc, app, raw, df, df_columns, stock_code, year_range,
          formatted_stock_code, matched, main_df, outcome, comparison_stocks,
          stats, arg, ret>>

----------------------------------------------------------------------------
(* Bounds of the model *)

MaxLen == 3        \* longest text handed to format_stock_code on its own
MaxInt == 11       \* largest number handed to format_stock_code on its own
MaxRows == 2       \* most rows of a spreadsheet
MaxYear == 2       \* years handed to the year-range filter on its own are 1..MaxYear
MaxFilterRows == 3 \* most rows handed to the year-range filter on its own
MaxStatRows == 2   \* most rows of a spreadsheet with the index column

----------------------------------------------------------------------------
(* Text *)

Digits == {"0", "1", "2", "3", "4", "5", "6", "7", "8", "9"}
Whitespace == {" "}
Char == {"0", "1", ".", "a", " "}

RECURSIVE Strings(_)
Strings(n) ==
    IF n = 0 THEN {<<>>}
    ELSE LET shorter == Strings(n - 1)
         IN  shorter \cup {Append(s, c) : s \in {t \in shorter : Len(t) = n - 1}, c \in Char}

Range(s) == {s[i] : i \in 1..Len(s)}

\* python: str.isdigit on one character
isdigit(c) == c \in Digits

\* python: str(n) of a non-negative int
RECURSIVE DecStr(_)
DecStr(n) ==
    LET d == <<"0", "1", "2", "3", "4", "5", "6", "7", "8", "9">>
    IN  IF n < 10 THEN <<d[n + 1]>> ELSE Append(DecStr(n \div 10), d[(n % 10) + 1])

\* python: str.strip()
RECURSIVE lstrip(_)
lstrip(s) == IF s # <<>> /\ Head(s) \in Whitespace THEN lstrip(Tail(s)) ELSE s

RECURSIVE rstrip(_)
rstrip(s) ==
    IF s # <<>> /\ s[Len(s)] \in Whitespace THEN rstrip(SubSeq(s, 1, Len(s) - 1)) ELSE s

strip(s) == rstrip(lstrip(s))

\* python: s.split('.')[0], the text before the first '.'
split_none(s) == s

RECURSIVE split_first(_)
split_first(s) ==
    IF s = <<>> \/ Head(s) = "." THEN <<>> ELSE <<Head(s)>> \o split_first(Tail(s))

\* python: ''.join(filter(str.isdigit, s))
RECURSIVE filter_isdigit(_)
filter_isdigit(s) ==
    IF s = <<>> THEN <<>>
    ELSE IF isdigit(Head(s)) THEN <<Head(s)>> \o filter_isdigit(Tail(s))
    ELSE filter_isdigit(Tail(s))

zfill_truncate(s, width) ==
    SubSeq([i \in 1..(width - Len(s)) |-> "0"] \o s, 1, width)

zfill_always(s, width) == [i \in 1..width |-> "0"] \o s

\* python: str.zfill(width): pads with '0' on the left, after a leading sign
zfill(s, width) ==
    LET zeros == [i \in 1..(width - Len(s)) |-> "0"]
    IN  IF Len(s) >= width THEN s
        ELSE IF s # <<>> /\ Head(s) \in {"+", "-"} THEN <<Head(s)>> \o zeros \o Tail(s)
        ELSE zeros \o s

----------------------------------------------------------------------------
(* Spreadsheet cells *)

NaN == [kind |-> "nan"]
Str(s) == [kind |-> "str", text |-> s]
Int_(n) == [kind |-> "int", num |-> n]
Float(n) == [kind |-> "float", num |-> n]      \* the float n.0

\* pandas: pd.isna(code) or code is None
isna(code) == code.kind = "nan"

\* python: str(code)
str(code) ==
    CASE code.kind = "str" -> code.text
      [] code.kind = "int" -> DecStr(code.num)
      [] code.kind = "float" -> DecStr(code.num) \o <<".", "0">>
      [] code.kind = "nan" -> <<"n", "a", "n">>

----------------------------------------------------------------------------
(* trend_analysis_app.py: format_stock_code *)

StockCodeWidth == 6

format_stock_code(code) ==
    IF isna(code) THEN <<>>
    ELSE LET code_str == strip(str(code))
             truncated == IF "." \in Range(code_str) THEN split_first(code_str) ELSE code_str
             digits == filter_isdigit(truncated)
         IN  zfill(digits, StockCodeWidth)

----------------------------------------------------------------------------
(* format_stock_code applied on its own *)

\* codes of six digits and more, as text and as numbers
LongCodes ==
    {Str(<<"6", "0", "0", "0", "0", "0">>), Int_(600000), Float(600000),
     Str(<<"6", "0", "0", "0", "0", "0", ".", "0">>),
     Str(<<" ", "6", "0", "0", "0", "0", "0", " ">>),
     Str(<<"1", "2", "3", "4", "5", "6", "7">>), Int_(1234567),
     Str(<<"0", "6", "0", "0", "0", "0", "0">>)}

RawCodes ==
    {NaN} \cup {Str(s) : s \in Strings(MaxLen)}
          \cup {Int_(n) : n \in 0..MaxInt} \cup {Float(n) : n \in 0..MaxInt}
          \cup LongCodes

\* no statistics were computed
NoStats == [evaluated |-> FALSE]

Idle ==
    /\ app = "none" /\ raw = <<>> /\ df = <<>> /\ df_columns = FALSE
    /\ stock_code = <<>> /\ year_range = <<0, 0>> /\ formatted_stock_code = <<>>
    /\ matched = <<>> /\ main_df = <<>> /\ outcome = "idle"
    /\ comparison_stocks = <<>> /\ stats = NoStats

InitNorm ==
    /\ Idle
    /\ pc = "call"
    /\ arg \in RawCodes
    /\ ret = <<>>

CallFormatStockCode ==
    /\ pc = "call"
    /\ ret' = format_stock_code(arg)
    /\ pc' = "return"
    /\ UNCHANGED <<app, raw, df, df_columns, stock_code, year_range,
                   formatted_stock_code, matched, main_df, outcome,
                   comparison_stocks, stats, arg>>

NextNorm == CallFormatStockCode

SpecNorm == InitNorm /\ [][NextNorm]_vars

----------------------------------------------------------------------------
(* The spreadsheet *)

\* the stock-code cells a row may hold
RowCodes == {NaN, Str(<<"1">>), Float(1), Int_(0), Str(<<"a", "2">>)}

\* the year cells a row may hold: a valid year, or an empty cell
RowYears == {Int_(1), Int_(2), NaN}

Rows == [code : RowCodes, year : RowYears]

RawFiles == UNION {[1..n -> Rows] : n \in 0..MaxRows}

----------------------------------------------------------------------------
(* pandas helpers *)

\* python: int(text) of a digit-only text
RECURSIVE ParseInt(_)
ParseInt(s) ==
    IF s = <<>> THEN 0
    ELSE 10 * ParseInt(SubSeq(s, 1, Len(s) - 1))
         + (CHOOSE d \in 0..9 : DecStr(d) = <<s[Len(s)]>>)

\* pandas: pd.to_numeric(cell, errors='coerce'); NaN where the cell is no number
to_numeric_coerce(cell) ==
    CASE cell.kind = "int" -> cell
      [] cell.kind = "float" -> cell
      [] cell.kind = "nan" -> NaN
      [] cell.kind = "str" ->
            LET t == strip(cell.text)
            IN  IF t # <<>> /\ \A i \in 1..Len(t) : isdigit(t[i])
                THEN Int_(ParseInt(t)) ELSE NaN

\* pandas: .fillna(value)
fillna(cell, value) == IF isna(cell) THEN Int_(value) ELSE cell

\* pandas: .astype(int) of a number
astype_int(cell) == cell.num

\* pandas: boolean-mask selection df[mask], rows kept in their order
RECURSIVE Select(_, _)
Select(rows, mask) ==
    IF rows = <<>> THEN <<>>
    ELSE LET rest == Select(Tail(rows), Tail(mask))
         IN  IF Head(mask) THEN <<Head(rows)>> \o rest ELSE rest

\* pandas: Series.min() and Series.max() of the year column
min_year_of(d) == CHOOSE y \in {r.year : r \in Range(d)} : \A r \in Range(d) : y <= r.year
max_year_of(d) == CHOOSE y \in {r.year : r \in Range(d)} : \A r \in Range(d) : y >= r.year

\* pandas: DataFrame.sort_values('年份') with the default kind, quicksort, which
\* is not stable: every ordering by year of the same rows is a possible result
IsSortedByYear(d) == \A i, j \in 1..Len(d) : i < j => d[i].year <= d[j].year

sort_none(d) == {d}

sort_values_year(d) ==
    {[i \in 1..Len(d) |-> d[p[i]]] :
        p \in {q \in [1..Len(d) -> 1..Len(d)] :
                 /\ \A i, j \in 1..Len(d) : i # j => q[i] # q[j]
                 /\ IsSortedByYear([i \in 1..Len(d) |-> d[q[i]]])}}

empty_never(d) == FALSE

\* pandas: DataFrame.empty
empty(d) == d = <<>>

\* the frame has the column 数字化转型指数
has_index(d) == d # <<>> /\ "index" \in DOMAIN d[1]

\* pandas: Series.sum() of the index column
RECURSIVE sum_index(_)
sum_index(d) == IF d = <<>> THEN 0 ELSE Head(d).index + sum_index(Tail(d))

\* pandas: Series.mean(), as the pair (sum, count); NaN for no rows
mean_index(d) == IF d = <<>> THEN "nan" ELSE <<sum_index(d), Len(d)>>

\* pandas: Series.max() and Series.min(); NaN for no rows
max_index(d) ==
    IF d = <<>> THEN "nan"
    ELSE CHOOSE v \in {r.index : r \in Range(d)} : \A r \in Range(d) : v >= r.index

min_index(d) ==
    IF d = <<>> THEN "nan"
    ELSE CHOOSE v \in {r.index : r \in Range(d)} : \A r \in Range(d) : v <= r.index

\* python: max(a, b)
py_max(a, b) == IF b > a THEN b ELSE a

----------------------------------------------------------------------------
(* trend_analysis_app.py: load_data *)

\* the year column after line 65
clean_year(cell) == astype_int(fillna(to_numeric_coerce(cell), 0))

\* the DataFrame after the cleaning of lines 57-69; row is the index label
load_data(file) ==
    [i \in 1..Len(file) |->
        [code |-> format_stock_code(file[i].code),
         year |-> clean_year(file[i].year),
         row |-> i]]

Init ==
    /\ Idle
    /\ pc = "start"
    /\ arg = <<>>
    /\ ret = <<>>

\* load_data returns the cleaned DataFrame
LoadData ==
    /\ pc = "start"
    /\ \E file \in RawFiles :
          /\ raw' = file
          /\ df' = load_data(file)
    /\ df_columns' = TRUE
    /\ app' = "trend"
    /\ pc' = "loaded"
    /\ UNCHANGED <<stock_code, year_range, formatted_stock_code, matched,
                   main_df, outcome, comparison_stocks, stats, arg, ret>>

\* load_data catches an exception of read_excel and returns pd.DataFrame()
LoadDataFails ==
    /\ pc = "start"
    /\ raw' = <<>>
    /\ df' = <<>>
    /\ df_columns' = FALSE
    /\ app' = "trend"
    /\ pc' = "loaded"
    /\ UNCHANGED <<stock_code, year_range, formatted_stock_code, matched,
                   main_df, outcome, comparison_stocks, stats, arg, ret>>

----------------------------------------------------------------------------
(* trend_analysis_app.py: the sidebar *)

\* the texts typed into the main stock-code input
TypedCodes ==
    { <<>>, <<"1">>, <<" ", "1", " ">>, <<"1", ".", "0">>,
      <<"0", "0", "0", "0", "0", "1">>, <<"a", "1">>, <<"a", "2">>, <<"2">>,
      <<".">>, <<"a">>, <<"0">>, <<" ">> }

NoSelection == <<"?">>

\* all_stocks: the distinct non-empty codes of df
all_stocks(d) == {r.code : r \in Range(d)} \ {<<>>}

\* the options of the stock selectbox
StockChoices(d, columns) ==
    {NoSelection} \cup (IF d # <<>> /\ columns THEN all_stocks(d) ELSE {})

\* the values the year slider can return
DefaultYearRange == <<1999, 2023>>

YearRanges(d, columns) ==
    IF d # <<>> /\ columns
    THEN {<<lo, hi>> : lo, hi \in min_year_of(d)..max_year_of(d)}
            \cap {yr \in Int \X Int : yr[1] <= yr[2]}
    ELSE {DefaultYearRange}

----------------------------------------------------------------------------
(* trend_analysis_app.py: the main query branch *)

\* line 195: every character is a digit or '.'
valid_code(code) == \A i \in 1..Len(code) : isdigit(code[i]) \/ code[i] = "."

\* mutant of the lookup: only the first row of the code
lookup_first(d, code) ==
    LET all == Select(d, [i \in 1..Len(d) |-> d[i].code = code])
    IN  IF all = <<>> THEN <<>> ELSE <<Head(all)>>

\* line 203: df[df['股票代码'] == formatted_stock_code]
lookup(d, code) == Select(d, [i \in 1..Len(d) |-> d[i].code = code])

\* mutants of the filter: an exclusive upper bound, an exclusive lower bound
filterByYearRange_below(d, lo, hi) ==
    Select(d, [i \in 1..Len(d) |-> d[i].year >= lo /\ d[i].year < hi])

filterByYearRange_above(d, lo, hi) ==
    Select(d, [i \in 1..Len(d) |-> d[i].year > lo /\ d[i].year <= hi])

\* line 209: the rows with year_range[0] <= year <= year_range[1]
filterByYearRange(d, lo, hi) ==
    Select(d, [i \in 1..Len(d) |-> d[i].year >= lo /\ d[i].year <= hi])

\* lines 192-220 for the given widget values
QueryBranch(d, columns, search_button, code_in, yr) ==
    LET code == strip(code_in)
        formatted == format_stock_code(Str(code))
        found == lookup(d, formatted)
        in_range == filterByYearRange(found, yr[1], yr[2])
        none == [formatted |-> <<>>, matched |-> <<>>, final |-> {<<>>}]
    IN  IF ~(search_button /\ code_in # <<>>)
        THEN [outcome |-> "no_query"] @@ none
        ELSE IF ~valid_code(code)
        THEN [outcome |-> "invalid_code"] @@ none
        ELSE IF ~columns
        THEN [outcome |-> "raised", formatted |-> formatted,
              matched |-> <<>>, final |-> {<<>>}]
        ELSE IF empty(found)
        THEN [outcome |-> "not_found", formatted |-> formatted,
              matched |-> found, final |-> {found}]
        ELSE IF empty(in_range)
        THEN [outcome |-> "no_data_in_range", formatted |-> formatted,
              matched |-> found, final |-> {in_range}]
        ELSE [outcome |-> "shown", formatted |-> formatted,
              matched |-> found, final |-> sort_values_year(in_range)]

growth_rate_unfloored(d) ==
    IF Len(d) > 1 THEN <<(d[Len(d)].index - d[1].index) * 100, d[1].index>> ELSE <<0, 1>>

\* lines 305-311: the growth of the index from the first to the last row, in
\* percent, as the pair (numerator, denominator)
growth_rate(d) ==
    IF Len(d) > 1
    THEN LET first_val == d[1].index
             last_val == d[Len(d)].index
         IN  <<(last_val - first_val) * 100, py_max(first_val, 1)>>
    ELSE <<0, 1>>

\* lines 301-311: the statistics under the index trend chart
trend_stats(d) ==
    [evaluated |-> TRUE, n |-> Len(d), avg_index |-> mean_index(d),
     max_index |-> max_index(d), min_index |-> min_index(d),
     growth_rate |-> growth_rate(d)]

\* the chart types of the sidebar; only the index trend's statistics are modelled,
\* the other charts read columns the model leaves out
ChartTypes == {"index_trend", "dimensions", "keywords", "radar"}

\* lines 222-225 and 297: the statistics the query branch shows
shown_stats(d, result, chart_type, final) ==
    IF result = "shown" /\ chart_type = "index_trend" /\ has_index(d) /\ ~empty(final)
    THEN trend_stats(final) ELSE NoStats

\* lines 158-171: the selectboxes of the companies to compare with
MaxComparisons == 3

ComparisonPicks(d, columns, enable_comparison) ==
    IF enable_comparison /\ ~empty(d)
    THEN [1..MaxComparisons -> StockChoices(d, columns)]
    ELSE {[i \in 1..MaxComparisons |-> NoSelection]}

RECURSIVE comparison_list(_, _)
comparison_list(picks, main_code) ==
    IF picks = <<>> THEN <<>>
    ELSE IF Head(picks) # NoSelection /\ Head(picks) # main_code
    THEN <<Head(picks)>> \o comparison_list(Tail(picks), main_code)
    ELSE comparison_list(Tail(picks), main_code)

frame_replaced(d, final) == final

\* lines 203-220 assign main_df only: df stays the frame load_data returned
frame_after_query(d, final) == d

\* lines 93-125: the main code of a run: the text typed in the input box, or the
\* code picked in the selectbox, which replaces it
MainCodes(d, columns) ==
    {IF selected # NoSelection THEN selected ELSE typed :
        typed \in TypedCodes, selected \in StockChoices(d, columns)}

\* one run of the script over the loaded data: the sidebar, then the query branch
RunScript(enable_comparison) ==
    /\ pc = "loaded"
    /\ app = "trend"
    /\ \E code \in MainCodes(df, df_columns),
          yr \in YearRanges(df, df_columns), search_button \in BOOLEAN :
          LET res == QueryBranch(df, df_columns, search_button, code, yr)
          IN  /\ stock_code' = code
              /\ year_range' = yr
              /\ comparison_stocks' \in
                     {comparison_list(picks, code) :
                         picks \in ComparisonPicks(df, df_columns, enable_comparison)}
              /\ formatted_stock_code' = res.formatted
              /\ matched' = res.matched
              /\ main_df' \in res.final
              /\ outcome' = res.outcome
              /\ stats' \in {shown_stats(df, res.outcome, chart_type, main_df') :
                                chart_type \in ChartTypes}
              /\ df' = frame_after_query(df, main_df')
    /\ pc' = "done"
    /\ UNCHANGED <<app, raw, df_columns, arg, ret>>

\* a run with the comparison checkbox left unchecked
Query == RunScript(FALSE)

\* a run with the comparison checkbox checked
QueryCompare == RunScript(TRUE)

\* any interaction reruns the script; load_data is cached
Rerun ==
    /\ pc = "done"
    /\ pc' = "loaded"
    /\ stock_code' = <<>>
    /\ year_range' = <<0, 0>>
    /\ formatted_stock_code' = <<>>
    /\ matched' = <<>>
    /\ main_df' = <<>>
    /\ outcome' = "idle"
    /\ comparison_stocks' = <<>>
    /\ stats' = NoStats
    /\ UNCHANGED <<app, raw, df, df_columns, arg, ret>>

Next == LoadData \/ LoadDataFails \/ Query \/ Rerun

Spec == Init /\ [][Next]_vars

----------------------------------------------------------------------------
(* part_000 (the query tool): load_data and the query *)

\* the spreadsheets read by the query tool: its year column is used as read,
\* and is taken to hold a year in every row
RawFilesQ == {file \in RawFiles : \A i \in 1..Len(file) : file[i].year.kind = "int"}

\* line 28: df['股票代码'].astype(str).str.zfill(6)
load_data_q(file) ==
    [i \in 1..Len(file) |->
        [code |-> zfill(str(file[i].code), StockCodeWidth),
         year |-> file[i].year.num,
         row |-> i]]

\* python: sub in text
Contains(text, sub) ==
    \E k \in 0..(Len(text) - Len(sub)) : SubSeq(text, k + 1, k + Len(sub)) = sub

\* line 42: the options of the stock selectbox
stock_codes(d) == {r.code : r \in Range(d)}

\* lines 71-77: the codes offered once a search text is given
filtered_codes(d, search_code) == {c \in stock_codes(d) : Contains(c, search_code)}

\* lines 80-84, before the sort: the rows of the code within the year range
filtered_df(d, selected_code, yr) ==
    Select(d, [i \in 1..Len(d) |->
                  /\ d[i].code = selected_code
                  /\ d[i].year >= yr[1]
                  /\ d[i].year <= yr[2]])

\* the statistics of the index shown with the query result
query_stats(d) ==
    [evaluated |-> TRUE, n |-> Len(d), avg_index |-> mean_index(d),
     max_index |-> max_index(d), min_index |-> min_index(d)]

LoadDataQ ==
    /\ pc = "start"
    /\ \E file \in RawFilesQ :
          /\ raw' = file
          /\ df' = load_data_q(file)
    /\ df_columns' = TRUE
    /\ app' = "qqq"
    /\ pc' = "loaded"
    /\ UNCHANGED <<stock_code, year_range, formatted_stock_code, matched,
                   main_df, outcome, comparison_stocks, stats, arg, ret>>

\* the file does not exist: load_data returns None and the page stays empty
LoadDataQFails ==
    /\ pc = "start"
    /\ app' = "qqq"
    /\ pc' = "nodata"
    /\ UNCHANGED <<raw, df, df_columns, stock_code, year_range,
                   formatted_stock_code, matched, main_df, outcome,
                   comparison_stocks, stats, arg, ret>>

\* one run of the script over the loaded data
QueryQ ==
    /\ pc = "loaded"
    /\ app = "qqq"
    /\ IF df = <<>>
       THEN \* line 60: min() of an empty list
            /\ outcome' = "raised"
            /\ UNCHANGED <<stock_code, year_range, matched, main_df, stats>>
       ELSE \E first \in stock_codes(df), search_code \in TypedCodes,
               yr \in YearRanges(df, TRUE) :
               \E selected_code \in
                     IF search_code = <<>> THEN {first}
                     ELSE IF filtered_codes(df, search_code) = {} THEN {NoSelection}
                     ELSE filtered_codes(df, search_code) :
                  /\ stock_code' = selected_code
                  /\ year_range' = yr
                  /\ matched' = lookup(df, selected_code)
                  /\ main_df' \in sort_values_year(filtered_df(df, selected_code, yr))
                  /\ outcome' = IF ~empty(filtered_df(df, selected_code, yr))
                                THEN "shown" ELSE "no_data_in_range"
                  /\ stats' = IF ~empty(filtered_df(df, selected_code, yr)) /\ has_index(df)
                              THEN query_stats(main_df') ELSE NoStats
    /\ pc' = "done"
    /\ UNCHANGED <<app, raw, df, df_columns, formatted_stock_code,
                   comparison_stocks, arg, ret>>

NextQ == LoadDataQ \/ LoadDataQFails \/ QueryQ \/ Rerun

SpecQ == Init /\ [][NextQ]_vars

----------------------------------------------------------------------------
(* Spreadsheets with the column 数字化转型指数 *)

StatCodes == {Str(<<"1">>), Int_(0)}

IndexValues == {0, 10, 20}

StatYears == {Int_(1), Int_(2)}

StatRows == [code : StatCodes, year : StatYears, index : IndexValues]

StatFiles == UNION {[1..n -> StatRows] : n \in 0..MaxStatRows}

\* load_data leaves the index column as read
load_data_indexed(file) ==
    [i \in 1..Len(file) |-> load_data(file)[i] @@ [index |-> file[i].index]]

load_data_q_indexed(file) ==
    [i \in 1..Len(file) |-> load_data_q(file)[i] @@ [index |-> file[i].index]]

LoadDataIndexed ==
    /\ pc = "start"
    /\ \E file \in StatFiles :
          /\ raw' = file
          /\ df' = load_data_indexed(file)
    /\ df_columns' = TRUE
    /\ app' = "trend"
    /\ pc' = "loaded"
    /\ UNCHANGED <<stock_code, year_range, formatted_stock_code, matched,
                   main_df, outcome, comparison_stocks, stats, arg, ret>>

LoadDataQIndexed ==
    /\ pc = "start"
    /\ \E file \in StatFiles :
          /\ raw' = file
          /\ df' = load_data_q_indexed(file)
    /\ df_columns' = TRUE
    /\ app' = "qqq"
    /\ pc' = "loaded"
    /\ UNCHANGED <<stock_code, year_range, formatted_stock_code, matched,
                   main_df, outcome, comparison_stocks, stats, arg, ret>>

NextStats == LoadDataIndexed \/ LoadDataQIndexed \/ LoadDataFails \/ Query \/ QueryQ \/ Rerun

SpecStats == Init /\ [][NextStats]_vars

\* spreadsheets of two companies, for the runs with the comparison checkbox checked
CompareFiles ==
    {file \in RawFiles : \A i \in 1..Len(file) :
        file[i].code \in StatCodes /\ file[i].year.kind = "int"}

LoadDataCompare ==
    /\ pc = "start"
    /\ \E file \in CompareFiles :
          /\ raw' = file
          /\ df' = load_data(file)
    /\ df_columns' = TRUE
    /\ app' = "trend"
    /\ pc' = "loaded"
    /\ UNCHANGED <<stock_code, year_range, formatted_stock_code, matched,
                   main_df, outcome, comparison_stocks, stats, arg, ret>>

NextCompare == LoadDataCompare \/ QueryCompare \/ Rerun

SpecCompare == Init /\ [][NextCompare]_vars

----------------------------------------------------------------------------
(* The year-range filter applied on its own *)

\* the frames handed to the filter: cleaned spreadsheets of one company
FilterFiles ==
    UNION {[1..n -> [code : {Str(<<"1">>)},
                     year : {Int_(y) : y \in 1..MaxYear} \cup {NaN}]] :
              n \in 0..MaxFilterRows}

\* the bounds handed to the filter, in either order
FilterYears == 0..(MaxYear + 1)

InitFilter ==
    /\ Idle
    /\ pc = "call"
    /\ \E file \in FilterFiles, lo, hi \in FilterYears :
          arg = [records |-> load_data(file), lo |-> lo, hi |-> hi]
    /\ ret = <<>>

CallFilterByYearRange ==
    /\ pc = "call"
    /\ ret' = filterByYearRange(arg.records, arg.lo, arg.hi)
    /\ pc' = "return"
    /\ UNCHANGED <<app, raw, df, df_columns, stock_code, year_range,
                   formatted_stock_code, matched, main_df, outcome,
                   comparison_stocks, stats, arg>>

NextFilter == CallFilterByYearRange

SpecFilter == InitFilter /\ [][NextFilter]_vars

----------------------------------------------------------------------------

(* C1: for every non-null input whose text has no digit before the first   *)
(* decimal point, format_stock_code returns the empty string.              *)
NoDigitBeforePoint(s) ==
    \A i \in 1..Len(s) : isdigit(s[i]) => \E j \in 1..(i - 1) : s[j] = "."

C1_DigitlessGivesEmpty ==
    (pc = "return" /\ ~isna(arg) /\ NoDigitBeforePoint(str(arg))) => ret = <<>>

----------------------------------------------------------------------------
(* Claims about load_data *)

\* the years of the spreadsheet's rows that parse as integers
ValidYears(file) == {file[i].year.num : i \in {j \in 1..Len(file) : file[j].year.kind = "int"}}

(* C2: load_data drops every row whose year cannot be parsed: every record *)
(* of the cleaned data carries a validly parsed year of the raw data, so   *)
(* the slider's bounds are the least and greatest of the valid years.      *)
C2_UnparsedYearsDropped ==
    (app = "trend" /\ pc # "start") =>
        /\ \A r \in Range(df) : r.year \in ValidYears(raw)
        /\ \A yr \in YearRanges(df, df_columns) :
              df # <<>> => yr[1] \in ValidYears(raw) /\ yr[2] \in ValidYears(raw)

(* C3: load_data drops every row whose normalized identifier is empty: no  *)
(* record of the cleaned data has an empty identifier.                     *)
C3_NoEmptyIdentifier ==
    (app = "trend" /\ pc # "start") => \A r \in Range(df) : r.code # <<>>

(* C4: the identifier of every record of the cleaned data is a fixed point *)
(* of format_stock_code.                                                   *)
C4_IdentifierFixedPoint ==
    (app = "trend" /\ pc # "start") =>
        \A r \in Range(df) : format_stock_code(Str(r.code)) = r.code

----------------------------------------------------------------------------
(* Claims about the lookup of the main query branch *)

Queried == app = "trend" /\ pc = "done" /\ outcome # "no_query"

\* the records of df whose identifier is the normalized form of the text
RecordsOf(text) == {r \in Range(df) : r.code = format_stock_code(Str(text))}

\* what a search with the text q, other inputs unchanged, would match
MatchedFor(q) == QueryBranch(df, df_columns, TRUE, q, year_range).matched

OnlyDigitsAndPoints(text) == Range(text) \subseteq (Digits \cup {"."})

(* C5: the lookup returns exactly the records whose identifier equals the  *)
(* normalized query code, for any formatting of the code: two query texts  *)
(* with the same normalized value yield the same records (which follows    *)
(* once each text yields the records of its normalized value).             *)
C5_LookupAnyFormatting ==
    Queried => Range(matched) = RecordsOf(stock_code)

(* C5 as amended: for a query text that, stripped of surrounding blanks,   *)
(* holds only digits and '.', the lookup returns exactly the records whose *)
(* identifier equals the normalized text, and two such texts with the same *)
(* normalized value yield the same records; a text with any other          *)
(* character is rejected and yields no record.                             *)
C5_LookupOfNumericText ==
    Queried =>
        IF OnlyDigitsAndPoints(strip(stock_code))
        THEN /\ Range(matched) = RecordsOf(stock_code)
             /\ outcome # "invalid_code"
             /\ \A q \in TypedCodes \ {<<>>} :
                   (/\ OnlyDigitsAndPoints(strip(q))
                    /\ format_stock_code(Str(q)) = format_stock_code(Str(stock_code)))
                       => MatchedFor(q) = matched
        ELSE outcome = "invalid_code" /\ matched = <<>> /\ main_df = <<>>

\* a query typed as " 1 " finds the rows stored from the cells "1" and 1.0
C5_Witness ==
    /\ Queried
    /\ stock_code = <<" ", "1", " ">>
    /\ Len(matched) = 2
    /\ raw[matched[1].row].code # raw[matched[2].row].code

(* C6: a query code without a digit before its first '.' is treated as no  *)
(* code: the lookup matches no record, ends with no rows and raises        *)
(* nothing.                                                                *)
C6_DigitlessQueryMatchesNothing ==
    (Queried /\ NoDigitBeforePoint(strip(stock_code))) =>
        matched = <<>> /\ main_df = <<>> /\ outcome # "raised"

(* C7: the lookup never raises, whatever the loaded data (the empty frame  *)
(* of a failed load included) and whatever the query code.                 *)
C7_LookupNeverRaises ==
    app = "trend" => outcome # "raised"

----------------------------------------------------------------------------
(* Claims about the two applications *)

\* the rows of the spreadsheet whose year lies in the chosen range
InRange(i) == df[i].year >= year_range[1] /\ df[i].year <= year_range[2]

(* C8: in both applications the stored identifier of every record is a     *)
(* value of format_stock_code, and a record whose raw code normalizes to   *)
(* the same value as the user's code is found by the query.                *)
C8_SingleNormalizer ==
    (pc = "done" /\ outcome \notin {"no_query", "raised"} /\ stock_code # NoSelection) =>
        \A i \in 1..Len(df) :
            /\ df[i].code = format_stock_code(raw[i].code)
            /\ (/\ format_stock_code(raw[i].code) = format_stock_code(Str(stock_code))
                /\ InRange(i))
                   => \E r \in Range(main_df) : r.row = i

----------------------------------------------------------------------------
(* Claims about the year-range filter *)

FilterReturned == pc = "return" /\ DOMAIN arg = {"records", "lo", "hi"}

\* the positions of the input whose year lies within the bounds, both included
Within(recs, lo, hi) == {i \in 1..Len(recs) : lo <= recs[i].year /\ recs[i].year <= hi}

(* C9: filterByYearRange returns exactly the records with                  *)
(* minYear <= year <= maxYear, both bounds included, in their input order; *)
(* with minYear > maxYear the result is the empty sequence.                *)
C9_InclusiveRangeInOrder ==
    FilterReturned =>
        LET recs == arg.records
            kept == Within(recs, arg.lo, arg.hi)
        IN  /\ Len(ret) = Cardinality(kept)
            /\ {r.row : r \in Range(ret)} = {recs[i].row : i \in kept}
            /\ \A r \in Range(ret) : r \in Range(recs)
            /\ \A i, j \in 1..Len(ret) : i < j => ret[i].row < ret[j].row
            /\ arg.lo > arg.hi => ret = <<>>

\* two records kept in input order, not in year order, and one dropped
C9_Witness ==
    /\ FilterReturned
    /\ Len(arg.records) = 3
    /\ Len(ret) = 2
    /\ ret[1].year > ret[2].year
    /\ arg.lo = ret[2].year
    /\ arg.hi = ret[1].year

(* C10: filterByYearRange is monotonic in the range: every record returned *)
(* for [min1, max1] is returned for every wider [min2, max2]; and the      *)
(* range [y, y] returns exactly the records of year y.                     *)
C10_MonotonicInRange ==
    FilterReturned =>
        /\ \A lo2, hi2 \in FilterYears :
              (lo2 <= arg.lo /\ arg.hi <= hi2) =>
                  Range(ret) \subseteq Range(filterByYearRange(arg.records, lo2, hi2))
        /\ arg.lo = arg.hi =>
              Range(ret) = {r \in Range(arg.records) : r.year = arg.lo}

\* a one-year range that returns a record, and a wider range that returns more
C10_Witness ==
    /\ FilterReturned
    /\ arg.lo = arg.hi
    /\ ret # <<>>
    /\ \E lo2, hi2 \in FilterYears :
          /\ lo2 <= arg.lo /\ arg.hi <= hi2
          /\ Len(filterByYearRange(arg.records, lo2, hi2)) > Len(ret)

----------------------------------------------------------------------------
(* C14-C16: the normalizer's truncation, padding and idempotence *)

Returned == pc = "return" /\ ~isna(arg)

\* the text before the first decimal point, or the whole text when it has none
BeforePoint(s) ==
    IF "." \in Range(s)
    THEN SubSeq(s, 1, (CHOOSE k \in 1..Len(s) :
                          s[k] = "." /\ \A j \in 1..(k - 1) : s[j] # ".") - 1)
    ELSE s

\* the digits of the input's stripped text that come before its first decimal point
DigitsOf(code) == SelectSeq(BeforePoint(strip(str(code))), isdigit)

\* C14: the identifier is made of the digits before the first decimal point only,
\* so the integer n, the text "n" and the text "n.0" (and the float n.0) all
\* normalize to the same identifier
C14_PointTruncates ==
    Returned =>
        /\ ret = zfill(DigitsOf(arg), StockCodeWidth)
        /\ arg.kind = "int" =>
               /\ ret = format_stock_code(Str(DecStr(arg.num) \o <<".", "0">>))
               /\ ret = format_stock_code(Str(DecStr(arg.num)))
               /\ ret = format_stock_code(Float(arg.num))

C14_Witness ==
    /\ pc = "return"
    /\ arg = Int_(11)
    /\ ret = <<"0", "0", "0", "0", "1", "1">>
    /\ format_stock_code(Str(<<"1", "1", ".", "0">>)) = ret

\* C15: a non-empty digit string d comes back left-padded with '0' to the length
\* max(6, |d|): never truncated, and digits only
C15_PaddedNeverTruncated ==
    (Returned /\ DigitsOf(arg) # <<>>) =>
        LET d == DigitsOf(arg)
            pad == Len(ret) - Len(d)
        IN  /\ Len(ret) = IF Len(d) > 6 THEN Len(d) ELSE 6
            /\ SubSeq(ret, pad + 1, Len(ret)) = d
            /\ \A i \in 1..pad : ret[i] = "0"
            /\ \A i \in 1..Len(ret) : isdigit(ret[i])

C15_Witness ==
    /\ pc = "return"
    /\ arg = Str(<<"1", "2", "3", "4", "5", "6", "7">>)
    /\ ret = <<"1", "2", "3", "4", "5", "6", "7">>

\* C16: normalizing a returned, non-empty identifier gives it back, and a text of
\* six or more digits is returned as it is
C16_Idempotent ==
    pc = "return" =>
        /\ ret # <<>> => format_stock_code(Str(ret)) = ret
        /\ (/\ arg.kind = "str"
            /\ Len(arg.text) >= 6
            /\ \A i \in 1..Len(arg.text) : isdigit(arg.text[i])) => ret = arg.text

C16_Witness ==
    /\ pc = "return"
    /\ arg = Str(<<"1">>)
    /\ ret = <<"0", "0", "0", "0", "0", "1">>
    /\ format_stock_code(Str(ret)) = ret

----------------------------------------------------------------------------
(* C11-C13: the statistics of a query and the dataset behind it *)

TrendStatsShown == app = "trend" /\ pc = "done" /\ stats.evaluated

\* C11: the growth rate is 0 for fewer than two records; otherwise it is
\* (last - first) * 100 / max(first, 1), first and last being the index values of
\* the first and last record in year order, which carry the smallest and the
\* largest year
C11_GrowthRate ==
    TrendStatsShown =>
        IF Len(main_df) < 2 THEN stats.growth_rate = <<0, 1>>
        ELSE LET first == main_df[1]
                 last == main_df[Len(main_df)]
             IN  /\ \A r \in Range(main_df) : first.year <= r.year /\ r.year <= last.year
                 /\ stats.growth_rate =
                        <<(last.index - first.index) * 100,
                          IF first.index > 1 THEN first.index ELSE 1>>

\* the index 10 in year 1 and 20 in year 2, read in the other order: 1000 / 10 = 100
C11_Witness ==
    /\ TrendStatsShown
    /\ Len(raw) = 2
    /\ raw[1].year = Int_(2) /\ raw[1].index = 20
    /\ raw[2].year = Int_(1) /\ raw[2].index = 10
    /\ Len(main_df) = 2
    /\ stats.growth_rate = <<1000, 10>>

\* C12: statistics are computed over at least one record, and none are computed
\* when the code-and-year-filtered result is empty
C12_NoStatsOfEmpty ==
    pc = "done" =>
        /\ stats.evaluated =>
               /\ stats.n > 0 /\ stats.n = Len(main_df)
               /\ outcome = "shown"
               /\ stats.avg_index # "nan"
        /\ main_df = <<>> => stats = NoStats

C12_Witness ==
    /\ pc = "done"
    /\ outcome = "no_data_in_range"
    /\ has_index(df)
    /\ matched # <<>>
    /\ stats = NoStats

\* C13: the dataset stays the frame that load_data made of the spreadsheet,
\* whatever was queried
C13_DatasetUnchanged ==
    (pc \in {"loaded", "done"} /\ df_columns) =>
        df = IF app = "trend" THEN load_data_indexed(raw) ELSE load_data_q_indexed(raw)

C13_Witness ==
    /\ pc = "done"
    /\ app = "trend"
    /\ outcome = "shown"
    /\ Len(df) = 2
    /\ Len(main_df) = 1
    /\ df = load_data_indexed(raw)

----------------------------------------------------------------------------
(* C17: the order of the records shown *)

Shown == pc = "done" /\ app = "trend" /\ outcome = "shown"

AscendingByYear(d) == \A i, j \in 1..Len(d) : i < j => d[i].year <= d[j].year

\* every year cell of the spreadsheet holds a year
YearsParsed == \A i \in 1..Len(raw) : raw[i].year.kind = "int"

\* C17 as stated, for a spreadsheet whose years all parse: the records shown are
\* in ascending order of year, and records of the same year keep the order they
\* have in the dataset
C17_StableSort ==
    (Shown /\ YearsParsed) =>
        /\ AscendingByYear(main_df)
        /\ \A i, j \in 1..Len(main_df) :
               (i < j /\ main_df[i].year = main_df[j].year)
                   => main_df[i].row < main_df[j].row

\* C17, amended: the records shown are the matched records of the year range, each
\* once, in ascending order of year
C17_SortedSameRecords ==
    Shown =>
        /\ AscendingByYear(main_df)
        /\ Cardinality(Range(main_df)) = Len(main_df)
        /\ Range(main_df) = {r \in Range(matched) :
                                year_range[1] <= r.year /\ r.year <= year_range[2]}

\* the two records of a company, the later year first in the dataset
C17_Witness ==
    /\ Shown
    /\ Len(main_df) = 2
    /\ main_df[1].row = 2 /\ main_df[2].row = 1
    /\ main_df[1].year < main_df[2].year

----------------------------------------------------------------------------
(* C18: the companies compared with *)

\* C18: no company of the comparison list is the company that was looked up
C18_MainNotCompared ==
    (pc = "done" /\ outcome \in {"not_found", "no_data_in_range", "shown"}) =>
        \A i \in 1..Len(comparison_stocks) : comparison_stocks[i] # formatted_stock_code

====
